---- MODULE Spec2Model ----
(***************************************************************************)
(* A model of copy-clipboard (src/src/copy-clipboard.js): the option       *)
(* merging helpers, copyClipboard and the click handler it binds, the      *)
(* asynchronous copyImageToClipboard, handlePaste, and the two top-level   *)
(* registrations (the permission query and the DOMContentLoaded listener). *)
(*                                                                         *)
(* JavaScript strings are sequences of one-character strings, so that      *)
(* snakeToCamel, toLowerCase and join work on characters.  A JavaScript    *)
(* value is a record [t, v]: t is its type and v a character sequence.     *)
(***************************************************************************)
EXTENDS Integers, Sequences, FiniteSets, TLC

VARIABLES
    dataset,              \* element id -> its DOMStringMap (camelCase name -> string)
    permission,           \* the permission query: "pending", a state, or "rejected"
    exportsCopyClipboard, \* exports.copyClipboard and the helpers attached to it
    domContentLoaded,     \* whether the DOMContentLoaded listener has run
    listeners,            \* element id -> the click handlers the library attached
    copyClipboardData,    \* element id -> the _copyClipboard expando
    lastEvent,            \* what the last call or click did (console, clipboard calls)
    calls,                \* how many times the page has called exports.copyClipboard
    imageCopies,          \* invocation id -> state of a copyImageToClipboard call
    paste,                \* the last handlePaste call: its input and what it did
    merge                 \* the last mergeOptions call: its input and its result

vars == <<dataset, permission, exportsCopyClipboard, domContentLoaded, listeners,
          copyClipboardData, lastEvent, calls, imageCopies, paste, merge>>

domVars == <<dataset, permission, exportsCopyClipboard, domContentLoaded, listeners,
             copyClipboardData, lastEvent, calls>>

----------------------------------------------------------------------------
(* Characters and strings *)

LowerCase == <<"a","b","c","d","e","f","g","h","i","j","k","l","m",
               "n","o","p","q","r","s","t","u","v","w","x","y","z">>
UpperCase == <<"A","B","C","D","E","F","G","H","I","J","K","L","M",
               "N","O","P","Q","R","S","T","U","V","W","X","Y","Z">>

toUpperCase(c) ==
    IF \E i \in 1..Len(LowerCase) : LowerCase[i] = c
    THEN UpperCase[CHOOSE i \in 1..Len(LowerCase) : LowerCase[i] = c]
    ELSE c

toLowerCase(c) ==
    IF \E i \in 1..Len(UpperCase) : UpperCase[i] = c
    THEN LowerCase[CHOOSE i \in 1..Len(UpperCase) : UpperCase[i] = c]
    ELSE c

\* String.prototype.toLowerCase
strToLowerCase(str) == [i \in 1..Len(str) |-> toLowerCase(str[i])]

\* String.prototype.slice(1)
slice1(str) == IF Len(str) <= 1 THEN <<>> ELSE SubSeq(str, 2, Len(str))

\* String.prototype.split(sep) for a one-character separator
RECURSIVE split(_, _)
split(str, sep) ==
    IF \E i \in 1..Len(str) : str[i] = sep
    THEN LET i == CHOOSE j \in 1..Len(str) :
                      str[j] = sep /\ \A k \in 1..(j - 1) : str[k] # sep
         IN  <<SubSeq(str, 1, i - 1)>> \o split(SubSeq(str, i + 1, Len(str)), sep)
    ELSE <<str>>

\* Array.prototype.join(sep) of an array of strings
RECURSIVE join(_, _)
join(texts, sep) ==
    IF Len(texts) = 0 THEN <<>>
    ELSE IF Len(texts) = 1 THEN texts[1]
    ELSE texts[1] \o sep \o join(Tail(texts), sep)

\* v.charAt(0).toUpperCase() + v.slice(1)
capitalize(v) == IF Len(v) = 0 THEN <<>> ELSE <<toUpperCase(v[1])>> \o slice1(v)

\* The algorithm of snakeToCamel
snakeToCamelOf(str) ==
    LET parts == split(str, "-")
        stage1 == join([i \in 1..Len(parts) |-> capitalize(parts[i])], <<>>)
    IN  IF Len(stage1) = 0 THEN <<>> ELSE <<toLowerCase(stage1[1])>> \o slice1(stage1)

\* snakeToCamel of the names the library itself forms ("copy-" + an option
\* of DEFAULT_OPTIONS), computed once
snakeToCamelTable ==
    LET prefixed(key) == <<"c","o","p","y","-">> \o key
        names == { <<"t","a","r","g","e","t">>,
                   <<"t","a","r","g","e","t","C","h","i","l","d","r","e","n">>,
                   <<"m","u","l","t","i","p","l","e">>,
                   <<"j","o","i","n","T","e","x","t">>,
                   <<"i","m","a","g","e","s">>,
                   <<"v","a","l","u","e">>,
                   <<"s","u","p","p","r","e","s","s","W","a","r","n","i","n","g","s">>,
                   <<"d","e","b","u","g">> }
    IN  [str \in {prefixed(key) : key \in names} |-> snakeToCamelOf(str)]

snakeToCamel(str) ==
    IF str \in DOMAIN snakeToCamelTable THEN snakeToCamelTable[str]
    ELSE snakeToCamelOf(str)

----------------------------------------------------------------------------
(* JavaScript values *)

Null == [t |-> "null", v |-> <<>>]
Str(s) == [t |-> "string", v |-> s]
Num(digits) == [t |-> "number", v |-> digits]
Bool(b) == [t |-> "boolean", v |-> IF b THEN <<"1">> ELSE <<>>]
\* a plain object, an HTMLElement (v: its text), an array of one-character
\* strings (v: its elements), an image File
Obj == [t |-> "object", v |-> <<>>]
Elem(text) == [t |-> "HTMLElement", v |-> text]
Arr(items) == [t |-> "array", v |-> items]
ImageFile == [t |-> "File", v |-> <<"i","m","a","g","e","/","p","n","g">>]

\* ToBoolean: what !x, x || y and if (x) read
truthy(x) ==
    CASE x.t = "null" -> FALSE
      [] x.t = "boolean" -> x.v # <<>>
      [] x.t = "number" -> x.v # <<"0">>
      [] x.t = "string" -> x.v # <<>>
      [] OTHER -> TRUE

boolVal(value) ==
    CASE value.t = "boolean" -> value.v # <<>>
      [] value.t = "number" -> value.v # <<"0">>
      [] value.t = "string" -> strToLowerCase(value.v) = <<"t","r","u","e">>
      [] OTHER -> truthy(value)

\* String(x) for the values writeText is given
toText(x) == x.v

----------------------------------------------------------------------------
(* Option names *)

k_target == <<"t","a","r","g","e","t">>
k_targetChildren == <<"t","a","r","g","e","t","C","h","i","l","d","r","e","n">>
k_multiple == <<"m","u","l","t","i","p","l","e">>
k_joinText == <<"j","o","i","n","T","e","x","t">>
k_images == <<"i","m","a","g","e","s">>
k_value == <<"v","a","l","u","e">>
k_suppressWarnings == <<"s","u","p","p","r","e","s","s","W","a","r","n","i","n","g","s">>
k_debug == <<"d","e","b","u","g">>

DEFAULT_OPTIONS ==
    (k_target :> Null) @@ (k_targetChildren :> Null) @@ (k_multiple :> Bool(TRUE)) @@
    (k_joinText :> Str(<<"\n">>)) @@ (k_images :> Bool(TRUE)) @@ (k_value :> Null) @@
    (k_suppressWarnings :> Bool(TRUE)) @@ (k_debug :> Bool(FALSE))

\* Object.assign({}, a, b)
ObjectAssign(a, b) ==
    [k \in DOMAIN a \cup DOMAIN b |-> IF k \in DOMAIN b THEN b[k] ELSE a[k]]

mergeOptionsTruthy(target, options, prefix) ==
    LET p == IF prefix # <<>> THEN prefix \o <<"-">> ELSE prefix
    IN  [key \in DOMAIN options |->
            IF snakeToCamel(p \o key) \in DOMAIN target
               /\ target[snakeToCamel(p \o key)] # <<>>
            THEN Str(target[snakeToCamel(p \o key)])
            ELSE options[key]]

\* target is the element's dataset
mergeOptions(target, options, prefix) ==
    LET p == IF prefix # <<>> THEN prefix \o <<"-">> ELSE prefix
    IN  [key \in DOMAIN options |->
            IF snakeToCamel(p \o key) \in DOMAIN target
            THEN Str(target[snakeToCamel(p \o key)])
            ELSE options[key]]

----------------------------------------------------------------------------
(* mergeOptions as a call: the inputs are drawn at Init, the call stores   *)
(* its result.  The code reads target.dataset and options and assigns only *)
(* to resultingOptions.                                                    *)

n_copy == <<"c","o","p","y">>
n_copyTarget == <<"c","o","p","y","T","a","r","g","e","t">>
n_copyTargetChildren ==
    <<"c","o","p","y","T","a","r","g","e","t","C","h","i","l","d","r","e","n">>
n_copyValue == <<"c","o","p","y","V","a","l","u","e">>
n_copyMultiple == <<"c","o","p","y","M","u","l","t","i","p","l","e">>
n_copySuppressWarnings ==
    <<"c","o","p","y","S","u","p","p","r","e","s","s","W","a","r","n","i","n","g","s">>
n_copyJoinText == <<"c","o","p","y","J","o","i","n","T","e","x","t">>
\* data-copy-copy-first, the attribute of the README's example: no option has its name
n_copyCopyFirst == <<"c","o","p","y","C","o","p","y","F","i","r","s","t">>

\* The dataset names, the strings and the option values a merge is tried on
MergeNames == {n_copyTarget, n_copyTargetChildren, n_copyCopyFirst, k_value}
MergeStrings == {<<>>, <<"x">>}
MergeKeys == {k_target, k_targetChildren, k_value}
MergeValues == {Null, Str(<<"o">>)}
MergePrefixes == {n_copy, <<>>}

PartialFunctions(D, R) == UNION {[S -> R] : S \in SUBSET D}

MergeIdle == [called |-> FALSE, target |-> <<>>, options |-> <<>>,
              prefix |-> <<>>, result |-> <<>>]

MergeInit ==
    \E d \in PartialFunctions(MergeNames, MergeStrings),
       o \in PartialFunctions(MergeKeys, MergeValues),
       p \in MergePrefixes :
        merge = [called |-> FALSE, target |-> d, options |-> o,
                 prefix |-> p, result |-> <<>>]

MergeOptionsCall ==
    /\ ~merge.called
    /\ merge' = [merge EXCEPT !.called = TRUE,
                              !.result = mergeOptions(merge.target, merge.options,
                                                      merge.prefix)]
    /\ UNCHANGED <<domVars, imageCopies, paste>>

----------------------------------------------------------------------------
(* The document.  Nodes are numbered in document order; parent = 0 is the  *)
(* body.  Two buttons (the elements made copyable) and the elements their  *)
(* selectors can match: the children of the buttons, two paragraphs, an    *)
(* image.  className c matches the selector ".c".                          *)

Node(tagName, className, parent, innerText, value, alt, src) ==
    [tagName |-> tagName, className |-> className, parent |-> parent,
     innerText |-> innerText, value |-> value, alt |-> alt, src |-> src]

Document ==
    << Node("button", "b", 0, <<"B">>, <<>>, <<>>, <<>>),
       Node("span",   "c", 1, <<"x">>, <<>>, <<>>, <<>>),
       Node("span",   "c", 1, <<"y">>, <<>>, <<>>, <<>>),
       Node("button", "b", 0, <<>>,    <<>>, <<>>, <<>>),
       Node("input",  "c", 4, <<>>,    <<"z">>, <<>>, <<>>),
       Node("p",      "a", 0, <<"p">>, <<>>, <<>>, <<>>),
       Node("p",      "a", 0, <<"q">>, <<>>, <<>>, <<>>),
       Node("img",    "i", 0, <<>>,    <<>>, <<>>, <<"u">>) >>

Nodes == 1..Len(Document)
Buttons == {n \in Nodes : Document[n].tagName = "button"}

\* The ids of set S as a sequence in document order
RECURSIVE InOrder(_)
InOrder(S) ==
    IF S = {} THEN <<>>
    ELSE LET n == CHOOSE x \in S : \A y \in S : x <= y
         IN  <<n>> \o InOrder(S \ {n})

\* document.querySelectorAll(selector), for a class selector
querySelectorAll(selector) ==
    InOrder({n \in Nodes : selector = <<".", Document[n].className>>})

\* element.querySelectorAll(selector): the descendants of element that match
elementQuerySelectorAll(element, selector) ==
    InOrder({n \in Nodes : /\ selector = <<".", Document[n].className>>
                           /\ Document[n].parent = element})

\* a || b on strings
OrElse(a, b) == IF a # <<>> THEN a ELSE b

----------------------------------------------------------------------------
(* What a call or a click did: the texts given to navigator.clipboard      *)
(* .writeText, the items given to navigator.clipboard.write, the messages  *)
(* given to WARNING and those that reached console.warn, console.log, the  *)
(* images given to copyImageToClipboard, the targets the handler went      *)
(* through, and whether it ran the selectors.                              *)

NoEffect ==
    [writeText |-> <<>>, write |-> <<>>, warning |-> <<>>, consoleWarn |-> <<>>,
     consoleLog |-> <<>>, copyImage |-> <<>>, targetElements |-> <<>>,
     queried |-> FALSE]

\* WARNING(msg) and DEBUG(msg) of a handler h: the closure reads the variables
callWARNING(eff, h, msg) ==
    [eff EXCEPT !.warning = Append(@, msg),
                !.consoleWarn = IF h.WARNING THEN Append(@, msg) ELSE @]

callDEBUG(eff, h, msg) ==
    [eff EXCEPT !.consoleLog = IF h.DEBUG THEN Append(@, msg) ELSE @]

\* copyTextToClipboard(text): one navigator.clipboard.writeText(text)
copyTextToClipboard(eff, text) == [eff EXCEPT !.writeText = Append(@, text)]

\* The text the handler takes from a target that is not copied as an image.
\* The document holds no select element and no title or text attribute, so
\* those branches and fallbacks are left out.
targetText(n) ==
    LET e == Document[n]
    IN  IF e.tagName \in {"input", "textarea"} THEN e.value
        ELSE IF e.tagName = "img" THEN OrElse(e.alt, e.src)
        ELSE OrElse(e.innerText, OrElse(e.value, e.alt))

targetElementsTruthy(targets, elementOptions) ==
    IF ~truthy(elementOptions[k_multiple]) THEN <<targets[1]>> ELSE targets

\* The targets a click goes through
targetElementsOf(targets, elementOptions) ==
    IF ~boolVal(elementOptions[k_multiple]) THEN <<targets[1]>> ELSE targets

\* The for loop over targetElements from index i: an image target (with
\* images on) is given to copyImageToClipboard and ends the handler
RECURSIVE copyTargets(_, _, _, _, _)
copyTargets(targetElements, i, elementOptions, resultingTexts, eff) ==
    IF i > Len(targetElements)
    THEN IF Len(resultingTexts) > 0
         THEN copyTextToClipboard(eff, join(resultingTexts,
                                            toText(elementOptions[k_joinText])))
         ELSE eff
    ELSE LET targetElement == targetElements[i]
             seen == [eff EXCEPT !.targetElements = Append(@, targetElement)]
         IN  IF boolVal(elementOptions[k_images])
                /\ Document[targetElement].tagName = "img"
             THEN [seen EXCEPT !.copyImage = Append(@, targetElement)]
             ELSE copyTargets(targetElements, i + 1, elementOptions,
                              Append(resultingTexts, targetText(targetElement)), seen)

\* The click handler bound to copyable; h holds what the closure captured
copyHandler(copyable, h) ==
    LET elementOptions == h.elementOptions
        options == h.options
    IN  IF truthy(elementOptions[k_value])
        THEN IF truthy(options[k_images]) /\ options[k_value].t = "File"
             THEN callDEBUG([NoEffect EXCEPT !.write = <<options[k_value]>>],
                            h, "ImageCopiedFromFile")
             ELSE IF options[k_value].t \in {"string", "number"}
             THEN copyTextToClipboard(NoEffect, toText(options[k_value]))
             ELSE IF options[k_value].t = "HTMLElement"
             THEN copyTextToClipboard(NoEffect, options[k_value].v)
             ELSE IF options[k_value].t = "array"
             THEN copyTextToClipboard(NoEffect,
                      join([i \in 1..Len(options[k_value].v) |-> <<options[k_value].v[i]>>],
                           <<"\n">>))
             ELSE callWARNING(NoEffect, h, "UnsupportedValueType")
        ELSE LET targets0 == IF truthy(elementOptions[k_target])
                             THEN querySelectorAll(elementOptions[k_target].v)
                             ELSE <<>>
                 targetChildren == IF truthy(elementOptions[k_targetChildren])
                                   THEN elementQuerySelectorAll(copyable,
                                            elementOptions[k_targetChildren].v)
                                   ELSE <<>>
                 targets == targets0 \o targetChildren
                 eff == [NoEffect EXCEPT !.queried = TRUE]
             IN  IF Len(targets) = 0
                 THEN callWARNING(eff, h, "NoTargetElements")
                 ELSE copyTargets(targetElementsOf(targets, elementOptions), 1,
                          elementOptions, <<>>,
                          callDEBUG(eff, h,
                              IF ~boolVal(elementOptions[k_multiple])
                              THEN "CopyingFirst" ELSE "CopyingAll"))

----------------------------------------------------------------------------
(* copyClipboard(element, options).  st carries what the call changes: the *)
(* listeners and expandos of the elements, the function's variables        *)
(* WARNING and DEBUG, the console, and the elements bound by this call.    *)

\* The closure created by one iteration of the loop
Handler(copyable, elementOptions, options, WARNING, DEBUG) ==
    [copyable |-> copyable, elementOptions |-> elementOptions, options |-> options,
     WARNING |-> WARNING, DEBUG |-> DEBUG]

\* WARNING(msg) inside copyClipboard
stWARNING(st, msg) ==
    [st EXCEPT !.eff.warning = Append(@, msg),
               !.eff.consoleWarn = IF st.WARNING THEN Append(@, msg) ELSE @]

\* One iteration of "for (const copyable of elements)"
bindElement(copyable, options, st) ==
    LET elementOptions == mergeOptions(dataset[copyable], options, n_copy)
        s1 == [st EXCEPT !.WARNING = ~boolVal(elementOptions[k_suppressWarnings]),
                         !.DEBUG = boolVal(elementOptions[k_debug])]
    IN  IF /\ ~truthy(elementOptions[k_target])
           /\ ~truthy(elementOptions[k_targetChildren])
           /\ ~truthy(elementOptions[k_value])
        THEN stWARNING(s1, "NothingToCopy")
        ELSE LET h == Handler(copyable, elementOptions, options, s1.WARNING, s1.DEBUG)
                 \* removeEventListener of the handler the expando holds
                 removed == IF s1.data[copyable] # {}
                            THEN s1.listeners[copyable] \
                                     {d.copyHandler : d \in s1.data[copyable]}
                            ELSE s1.listeners[copyable]
             IN  [s1 EXCEPT !.listeners[copyable] = removed \cup {h},
                            !.data[copyable] = {[options |-> elementOptions,
                                                 copyHandler |-> h]},
                            !.bound = @ \cup {copyable}]

RECURSIVE bindElements(_, _, _, _)
bindElements(elements, i, options, st) ==
    IF i > Len(elements) THEN st
    ELSE bindElements(elements, i + 1, options, bindElement(elements[i], options, st))

\* WARNING and DEBUG are variables of the call, shared by the handlers it
\* created: each handler reads the value the loop left in them
closeOver(st) ==
    LET fix(h) == [h EXCEPT !.WARNING = st.WARNING, !.DEBUG = st.DEBUG]
    IN  [st EXCEPT
           !.listeners = [e \in Nodes |->
               IF e \in st.bound
               THEN {IF h \in {d.copyHandler : d \in st.data[e]}
                     THEN fix(h) ELSE h : h \in st.listeners[e]}
               ELSE st.listeners[e]],
           !.data = [e \in Nodes |->
               IF e \in st.bound
               THEN {[d EXCEPT !.copyHandler = fix(d.copyHandler)] : d \in st.data[e]}
               ELSE st.data[e]]]

\* element: [t |-> "string", v |-> selector] or [t |-> "HTMLElement", id |-> node]
copyClipboard(element, userOptions, st0) ==
    LET options == ObjectAssign(DEFAULT_OPTIONS, userOptions)
        st == [st0 EXCEPT !.WARNING = ~boolVal(options[k_suppressWarnings]),
                          !.DEBUG = boolVal(options[k_debug]),
                          !.bound = {}]
        elements == IF element.t = "string" THEN querySelectorAll(element.v)
                    ELSE IF element.t = "HTMLElement" THEN <<element.id>>
                    ELSE <<>>
    IN  IF Len(elements) = 0
        THEN stWARNING(st, "NoElementsFound")
        ELSE closeOver(bindElements(elements, 1, options, st))

\* The state a call starts from, and the variables it leaves
CallState ==
    [listeners |-> listeners, data |-> copyClipboardData, eff |-> NoEffect,
     WARNING |-> FALSE, DEBUG |-> FALSE, bound |-> {}]

----------------------------------------------------------------------------
(* The page: the datasets of the two buttons, the calls the page's script  *)
(* makes, and the events.                                                  *)

s_a == <<".", "a">>
s_b == <<".", "b">>
s_c == <<".", "c">>
s_i == <<".", "i">>
s_none == <<".", "n">>
t_false == <<"f","a","l","s","e">>
t_true == <<"t","r","u","e">>

\* data-copy-* attributes of a button
d_value == (n_copyValue :> <<"V">>)
d_warn == (n_copyTarget :> s_none) @@ (n_copySuppressWarnings :> t_false)
d_quiet == (n_copyTarget :> s_none) @@ (n_copySuppressWarnings :> t_true)
d_first == (n_copyTarget :> s_a) @@ (n_copyMultiple :> t_false)
d_children == (n_copyTargetChildren :> s_c) @@ (n_copyMultiple :> <<"F","a","l","s","e">>)
                                            @@ (n_copyJoinText :> <<",">>)

\* The pages: the datasets of the first and of the second button
Pages ==
    { <<d1, d2>> : d1 \in {<<>>, d_value, d_warn}, d2 \in {<<>>, d_quiet} }
    \cup { <<d_quiet, d_warn>>, <<d_first, d_children>>, <<d_children, d_first>> }

\* options objects the page passes to copyClipboard
CallOptions ==
    { <<>>,
      (k_value :> Str(<<"W">>)),
      (k_value :> Num(<<"0">>)) @@ (k_target :> Str(s_a)),
      (k_value :> Num(<<"7">>)) @@ (k_targetChildren :> Str(s_c)),
      (k_value :> Obj) @@ (k_suppressWarnings :> Bool(FALSE)),
      (k_value :> Arr(<<"r", "s">>)),
      (k_value :> Elem(<<"e">>)),
      (k_value :> ImageFile) @@ (k_debug :> Bool(TRUE)),
      (k_target :> Str(s_c)) @@ (k_targetChildren :> Str(s_c))
                             @@ (k_multiple :> Bool(FALSE)),
      (k_target :> Str(s_none)) @@ (k_targetChildren :> Str(s_c))
                                @@ (k_multiple :> Num(<<"0">>)),
      (k_target :> Str(s_a)) @@ (k_joinText :> Str(<<";">>)) @@ (k_debug :> Bool(TRUE)),
      (k_target :> Str(s_i)),
      (k_target :> Str(s_i)) @@ (k_images :> Bool(FALSE))
                             @@ (k_multiple :> Str(<<"n","o">>)) }

\* first arguments the page passes to copyClipboard
CallElements ==
    { [t |-> "string", v |-> s_b, id |-> 0],
      [t |-> "string", v |-> s_none, id |-> 0],
      [t |-> "undefined", v |-> <<>>, id |-> 0] }
    \cup { [t |-> "HTMLElement", v |-> <<>>, id |-> b] : b \in Buttons }

\* The calls of exports.copyClipboard the page's script makes
MaxCalls == 1

PermissionStates == {"granted", "prompt", "denied"}

ExportsUndefined ==
    [fn |-> "undefined", version |-> "", copyTextToClipboard |-> FALSE,
     copyImageToClipboard |-> FALSE, handlePaste |-> FALSE]

Event(kind, el, eff) == [kind |-> kind, el |-> el, eff |-> eff]

\* navigator.permissions.query(...).then(callback): the callback, with result.state
PermissionResolved(state) ==
    /\ permission = "pending"
    /\ permission' = state
    /\ exportsCopyClipboard' =
           [fn |-> IF state \in {"granted", "prompt"} THEN "copyClipboard" ELSE "stub",
            version |-> "1.0.2", copyTextToClipboard |-> TRUE,
            copyImageToClipboard |-> TRUE, handlePaste |-> TRUE]
    /\ lastEvent' = Event("permission", 0,
           IF state \in {"granted", "prompt"} THEN NoEffect
           ELSE [NoEffect EXCEPT !.consoleWarn = <<"PermissionNotGranted">>])
    /\ UNCHANGED <<dataset, domContentLoaded, listeners, copyClipboardData, calls>>
    /\ UNCHANGED <<imageCopies, paste, merge>>

\* The query's promise rejects: no rejection handler is registered
PermissionRejected ==
    /\ permission = "pending"
    /\ permission' = "rejected"
    /\ lastEvent' = Event("permission", 0, NoEffect)
    /\ UNCHANGED <<dataset, exportsCopyClipboard, domContentLoaded, listeners,
                   copyClipboardData, calls>>
    /\ UNCHANGED <<imageCopies, paste, merge>>

\* The elements of '[data-copy-target],[data-copy-value],[data-copy-target-children]'
copyableElements ==
    InOrder({n \in Nodes :
        DOMAIN dataset[n] \cap {n_copyTarget, n_copyValue, n_copyTargetChildren} # {}})

RECURSIVE autoSetup(_, _, _)
autoSetup(elements, i, st) ==
    IF i > Len(elements) THEN st
    ELSE autoSetup(elements, i + 1,
             copyClipboard([t |-> "HTMLElement", v |-> <<>>, id |-> elements[i]],
                           mergeOptions(dataset[elements[i]], DEFAULT_OPTIONS, n_copy),
                           st))

\* The DOMContentLoaded listener
DOMContentLoaded ==
    /\ ~domContentLoaded
    /\ domContentLoaded' = TRUE
    /\ LET st == autoSetup(copyableElements, 1, CallState)
       IN  /\ listeners' = st.listeners
           /\ copyClipboardData' = st.data
           /\ lastEvent' = Event("load", 0, st.eff)
    /\ UNCHANGED <<dataset, permission, exportsCopyClipboard, calls>>
    /\ UNCHANGED <<imageCopies, paste, merge>>

\* The page calls exports.copyClipboard(element, options)
CallCopyClipboard(element, options) ==
    /\ exportsCopyClipboard.fn # "undefined"
    /\ calls < MaxCalls
    /\ calls' = calls + 1
    /\ IF exportsCopyClipboard.fn = "copyClipboard"
       THEN LET st == copyClipboard(element, options, CallState)
            IN  /\ listeners' = st.listeners
                /\ copyClipboardData' = st.data
                /\ lastEvent' = Event("call", 0, st.eff)
       ELSE /\ lastEvent' = Event("call", 0,
                   [NoEffect EXCEPT !.consoleWarn = <<"PermissionNotGranted">>])
            /\ UNCHANGED <<listeners, copyClipboardData>>
    /\ UNCHANGED <<dataset, permission, exportsCopyClipboard, domContentLoaded>>
    /\ UNCHANGED <<imageCopies, paste, merge>>

\* A click on el runs the handlers attached to it
Click(el) ==
    /\ \E h \in listeners[el] :
           lastEvent' = Event("click", el, copyHandler(el, h))
    /\ UNCHANGED <<dataset, permission, exportsCopyClipboard, domContentLoaded,
                   listeners, copyClipboardData, calls>>
    /\ UNCHANGED <<imageCopies, paste, merge>>

DomIdle ==
    /\ dataset = [n \in Nodes |-> <<>>]
    /\ permission = "pending"
    /\ exportsCopyClipboard = ExportsUndefined
    /\ domContentLoaded = FALSE
    /\ listeners = [n \in Nodes |-> {}]
    /\ copyClipboardData = [n \in Nodes |-> {}]
    /\ lastEvent = Event("none", 0, NoEffect)
    /\ calls = 0

DomInit ==
    /\ \E page \in Pages :
           dataset = [n \in Nodes |-> IF n = 1 THEN page[1]
                                       ELSE IF n = 4 THEN page[2] ELSE <<>>]
    /\ permission = "pending"
    /\ exportsCopyClipboard = ExportsUndefined
    /\ domContentLoaded = FALSE
    /\ listeners = [n \in Nodes |-> {}]
    /\ copyClipboardData = [n \in Nodes |-> {}]
    /\ lastEvent = Event("none", 0, NoEffect)
    /\ calls = 0

----------------------------------------------------------------------------
(* copyImageToClipboard(imageElement), an async function: each invocation  *)
(* is a process.  An attempt is one call of getImage; it records           *)
(* changeCrossOrigin, whether a new Image with crossOrigin = 'anonymous'   *)
(* was created, and how the promise settled.                               *)

\* Invocations of copyImageToClipboard in flight together
MaxCopies == 2

Copies == 1..MaxCopies
ImageInputs == {"HTMLImageElement", "string", "other"}

ImageCopyIdle ==
    [input |-> "none", pc |-> "idle", attempts |-> <<>>, blob |-> FALSE,
     writes |-> 0, console |-> <<>>]

ImageIdle == [c \in Copies |-> ImageCopyIdle]

Attempt(changeCrossOrigin, newImage, outcome) ==
    [changeCrossOrigin |-> changeCrossOrigin, newImage |-> newImage,
     outcome |-> outcome]

\* The synchronous part of getBlobFromImage: the canvas is drawn and toBlob
\* called, either of which may throw (a broken image, a tainted canvas)
getBlobFromImage(p, threw) ==
    IF threw
    THEN [p EXCEPT !.pc = "rejected", !.attempts[Len(p.attempts)].outcome = "failed"]
    ELSE [p EXCEPT !.pc = "toBlob"]

\* getImage(imageElement, changeCrossOrigin) up to the promise it returns
getImage(p, changeCrossOrigin, threw) ==
    IF p.input = "string"
    THEN [p EXCEPT !.attempts = Append(@, Attempt(changeCrossOrigin, TRUE, "pending")),
                   !.pc = "loading"]
    ELSE IF p.input # "HTMLImageElement"
    THEN [p EXCEPT !.attempts = Append(@, Attempt(changeCrossOrigin, FALSE, "failed")),
                   !.pc = "rejected"]
    ELSE IF changeCrossOrigin
    THEN [p EXCEPT !.attempts = Append(@, Attempt(changeCrossOrigin, TRUE, "pending")),
                   !.pc = "loading"]
    ELSE getBlobFromImage(
             [p EXCEPT !.attempts = Append(@, Attempt(changeCrossOrigin, FALSE,
                                                      "pending"))],
             threw)

retryAlways(blob) == TRUE

\* if (!blob): whether getImage is called again, with changeCrossOrigin
retryWithCrossOrigin(blob) == ~blob

\* copyImageToClipboard(imageElement) is called: it runs to its first await
CopyImageToClipboard(c, input, threw) ==
    /\ imageCopies[c].pc = "idle"
    /\ imageCopies' = [imageCopies EXCEPT
           ![c] = getImage([imageCopies[c] EXCEPT !.input = input], FALSE, threw)]
    /\ UNCHANGED <<domVars, paste, merge>>

\* image.onload of an Image that getImage created
ImageOnload(c, threw) ==
    /\ imageCopies[c].pc = "loading"
    /\ imageCopies' = [imageCopies EXCEPT ![c] = getBlobFromImage(imageCopies[c], threw)]
    /\ UNCHANGED <<domVars, paste, merge>>

\* image.onerror
ImageOnerror(c) ==
    /\ imageCopies[c].pc = "loading"
    /\ imageCopies' = [imageCopies EXCEPT
           ![c].pc = "rejected",
           ![c].attempts[Len(imageCopies[c].attempts)].outcome = "failed"]
    /\ UNCHANGED <<domVars, paste, merge>>

\* The callback of canvas.toBlob, with a blob or with null
ToBlobCallback(c, blob) ==
    /\ imageCopies[c].pc = "toBlob"
    /\ imageCopies' = [imageCopies EXCEPT
           ![c].pc = IF blob THEN "resolved" ELSE "rejected",
           ![c].attempts[Len(imageCopies[c].attempts)].outcome =
               IF blob THEN "blob" ELSE "failed"]
    /\ UNCHANGED <<domVars, paste, merge>>

\* From "if (!blob) throw" to the call of navigator.clipboard.write
writeItem(p, itemThrew) ==
    IF ~p.blob
    THEN [p EXCEPT !.pc = "done", !.console = Append(@, "FailedToFetchImage")]
    ELSE IF itemThrew
    THEN [p EXCEPT !.pc = "done", !.console = Append(@, "FailedToFetchImage")]
    ELSE [p EXCEPT !.pc = "writing", !.writes = @ + 1]

\* The function resumes after the await of an attempt
Resume(c, itemThrew) ==
    LET p == imageCopies[c]
        first == Len(p.attempts) = 1
        got == [p EXCEPT !.blob = (p.blob \/ p.pc = "resolved")]
        warned == IF first /\ p.pc = "rejected"
                  THEN [got EXCEPT !.console = Append(@, "FailedWithoutCrossOrigin")]
                  ELSE got
    IN  /\ p.pc \in {"resolved", "rejected"}
        /\ imageCopies' = [imageCopies EXCEPT ![c] =
               IF first /\ retryWithCrossOrigin(warned.blob)
               THEN getImage(warned, TRUE, FALSE)
               ELSE IF ~first /\ p.pc = "rejected"
               THEN [warned EXCEPT !.pc = "done",
                                   !.console = Append(@, "FailedToFetchImage")]
               ELSE writeItem(warned, itemThrew)]
        /\ UNCHANGED <<domVars, paste, merge>>

\* navigator.clipboard.write settles
WriteSettled(c, ok) ==
    /\ imageCopies[c].pc = "writing"
    /\ imageCopies' = [imageCopies EXCEPT
           ![c].pc = "done",
           ![c].console = IF ok THEN @ ELSE Append(@, "FailedToCopyImage")]
    /\ UNCHANGED <<domVars, paste, merge>>

----------------------------------------------------------------------------
(* handlePaste(event, options).  clipboardData is a DataTransfer with an   *)
(* items list, or the legacy window.clipboardData, which has getData only. *)

\* The length of the items list of a paste
MaxItems == 2

Item(kind, type, file) == [kind |-> kind, type |-> type, file |-> file]

\* file: whether getAsFile() returns a file
PasteItems ==
    { Item("file", "image/png", TRUE), Item("file", "image/png", FALSE),
      Item("string", "text/plain", FALSE), Item("string", "text/html", FALSE),
      Item("file", "application/pdf", TRUE) }

NoClipboardData == [kind |-> "none", items |-> <<>>, text |-> <<>>]
DataTransfer(items) == [kind |-> "items", items |-> items, text |-> <<>>]
LegacyClipboardData(text) == [kind |-> "legacy", items |-> <<>>, text |-> text]

EventClipboardData ==
    {NoClipboardData} \cup
    {DataTransfer(items) : items \in UNION {[1..n -> PasteItems] : n \in 0..MaxItems}}

WindowClipboardData ==
    {NoClipboardData, LegacyClipboardData(<<"t">>), LegacyClipboardData(<<>>)}

\* Which of the callbacks in options are functions
PasteOptions == [onPasteImage : BOOLEAN, onPasteText : BOOLEAN, onError : BOOLEAN]

PasteIdle ==
    [called |-> FALSE, clipboardData |-> NoClipboardData,
     options |-> [onPasteImage |-> TRUE, onPasteText |-> TRUE, onError |-> TRUE],
     returned |-> "none", dispatched |-> <<>>, getAsString |-> FALSE]

PasteResult(p, returned, callback, isFunction) ==
    [p EXCEPT !.returned = returned,
              !.dispatched = IF isFunction THEN Append(@, callback) ELSE @]

startsWithImage(type) == type \in {"image/png"}

\* The for loop over clipboardData.items from index i
RECURSIVE pasteItems(_, _)
pasteItems(p, i) ==
    IF i > Len(p.clipboardData.items)
    THEN [p EXCEPT !.returned = "undefined"]
    ELSE LET item == p.clipboardData.items[i]
         IN  IF item.kind = "file" /\ startsWithImage(item.type)
             THEN IF ~item.file
                  THEN PasteResult(p, "false", "onError", p.options.onError)
                  ELSE PasteResult(p, "true", "onPasteImage", p.options.onPasteImage)
             ELSE IF item.kind = "string" /\ item.type = "text/plain"
             THEN [p EXCEPT !.returned = "true", !.getAsString = TRUE]
             ELSE pasteItems(p, i + 1)

\* p holds clipboardData (event.clipboardData || window.clipboardData) and options
handlePaste(p) ==
    IF p.clipboardData.kind = "none"
    THEN PasteResult(p, "false", "onError", p.options.onError)
    ELSE IF p.clipboardData.kind = "items"
    THEN pasteItems(p, 1)
    ELSE IF p.clipboardData.text # <<>>
    THEN PasteResult(p, "true", "onPasteText", p.options.onPasteText)
    ELSE PasteResult(p, "false", "onError", p.options.onError)

\* A paste event reaches a listener that calls handlePaste(event, options)
HandlePaste(eventData, windowData, options) ==
    /\ ~paste.called
    /\ paste' = handlePaste(
           [PasteIdle EXCEPT !.called = TRUE,
                             !.clipboardData = IF eventData.kind # "none"
                                               THEN eventData ELSE windowData,
                             !.options = options])
    /\ UNCHANGED <<domVars, imageCopies, merge>>

\* The callback given to item.getAsString
GetAsStringCallback ==
    /\ paste.getAsString
    /\ paste' = [paste EXCEPT
           !.getAsString = FALSE,
           !.dispatched = IF paste.options.onPasteText
                          THEN Append(@, "onPasteText") ELSE @]
    /\ UNCHANGED <<domVars, imageCopies, merge>>

----------------------------------------------------------------------------
(* The specifications *)

\* The page: permission query, DOMContentLoaded, calls and clicks
Init ==
    /\ DomInit
    /\ imageCopies = ImageIdle
    /\ paste = PasteIdle
    /\ merge = MergeIdle

Next ==
    \/ \E state \in PermissionStates : PermissionResolved(state)
    \/ PermissionRejected
    \/ DOMContentLoaded
    \/ \E element \in CallElements, options \in CallOptions :
           CallCopyClipboard(element, options)
    \/ \E el \in Buttons : Click(el)

Spec == Init /\ [][Next]_vars

\* copyImageToClipboard
ImageInit ==
    /\ DomIdle
    /\ imageCopies = ImageIdle
    /\ paste = PasteIdle
    /\ merge = MergeIdle

ImageNext ==
    \/ \E c \in Copies, input \in ImageInputs, threw \in BOOLEAN :
           CopyImageToClipboard(c, input, threw)
    \/ \E c \in Copies, threw \in BOOLEAN : ImageOnload(c, threw)
    \/ \E c \in Copies : ImageOnerror(c)
    \/ \E c \in Copies, blob \in BOOLEAN : ToBlobCallback(c, blob)
    \/ \E c \in Copies, itemThrew \in BOOLEAN : Resume(c, itemThrew)
    \/ \E c \in Copies, ok \in BOOLEAN : WriteSettled(c, ok)

SpecImage == ImageInit /\ [][ImageNext]_vars

\* handlePaste
PasteInit ==
    /\ DomIdle
    /\ imageCopies = ImageIdle
    /\ paste = PasteIdle
    /\ merge = MergeIdle

PasteNext ==
    \/ \E eventData \in EventClipboardData, windowData \in WindowClipboardData,
          options \in PasteOptions :
              HandlePaste(eventData, windowData, options)
    \/ GetAsStringCallback

SpecPaste == PasteInit /\ [][PasteNext]_vars

\* mergeOptions
MergeSpecInit ==
    /\ DomIdle
    /\ imageCopies = ImageIdle
    /\ paste = PasteIdle
    /\ MergeInit

MergeNext == MergeOptionsCall

SpecMerge == MergeSpecInit /\ [][MergeNext]_vars

----------------------------------------------------------------------------
(* Properties *)

\* C1: an invocation of copyImageToClipboard calls getImage at most twice,
\* first without and then with changeCrossOrigin; the second call is made
\* exactly when the first one failed, and for an image element only the
\* second one creates a new cross-origin Image; navigator.clipboard.write is
\* called at most once and only after an attempt gave a blob.
ImageCopyTwoStep ==
    \A c \in Copies :
        LET p == imageCopies[c]
            n == Len(p.attempts)
        IN  /\ n <= 2
            /\ p.writes <= 1
            /\ p.writes = 1 => \E i \in 1..n : p.attempts[i].outcome = "blob"
            /\ n >= 1 => ~p.attempts[1].changeCrossOrigin
            /\ n = 2 => /\ p.attempts[1].outcome = "failed"
                        /\ p.attempts[2].changeCrossOrigin
            /\ (p.pc = "done" /\ p.attempts[1].outcome = "failed") => n = 2
            /\ (n >= 1 /\ p.input = "HTMLImageElement") =>
                   /\ ~p.attempts[1].newImage
                   /\ n = 2 => p.attempts[2].newImage

\* C1: the direct capture of an image element failed, the cross-origin retry
\* gave a blob and it was written
ImageCopyRetried ==
    \E c \in Copies :
        /\ imageCopies[c].input = "HTMLImageElement"
        /\ imageCopies[c].pc = "done"
        /\ Len(imageCopies[c].attempts) = 2
        /\ imageCopies[c].attempts[2].outcome = "blob"
        /\ imageCopies[c].writes = 1

\* The handler the library holds for the element of the last click
ClickedHandlers ==
    IF lastEvent.kind = "click"
    THEN {d.copyHandler : d \in copyClipboardData[lastEvent.el]}
    ELSE {}

\* C2: a click on an element whose data-copy-value is a non-empty V writes V,
\* whatever value the options of the call held.
DataCopyValueOverrides ==
    (/\ lastEvent.kind = "click"
     /\ n_copyValue \in DOMAIN dataset[lastEvent.el]
     /\ dataset[lastEvent.el][n_copyValue] # <<>>)
    => lastEvent.eff.writeText = <<dataset[lastEvent.el][n_copyValue]>>

\* C3: when the clicked element was bound together with another element
\* (the same options object) whose effective suppressWarnings differs, a
\* warning of the click reaches console.warn exactly if the clicked
\* element's own effective suppressWarnings is false.
SuppressWarningsPerElement ==
    \A h \in ClickedHandlers :
        (/\ lastEvent.kind = "click"
         /\ lastEvent.eff.warning # <<>>
         /\ \E e \in Nodes \ {lastEvent.el} : \E d \in copyClipboardData[e] :
                /\ d.copyHandler.options = h.options
                /\ boolVal(d.options[k_suppressWarnings])
                       # boolVal(h.elementOptions[k_suppressWarnings]))
        => (lastEvent.eff.consoleWarn # <<>>
                <=> ~boolVal(h.elementOptions[k_suppressWarnings]))

\* C4: once the permission state is known to be neither granted nor prompt,
\* no element carries a click listener of the library.
NoListenerWithoutPermission ==
    permission = "denied" => \A n \in Nodes : listeners[n] = {}

\* C5: once the permission query has settled, whatever its outcome,
\* exports.copyClipboard is a function that carries version and the helpers.
ExportsAfterQuery ==
    permission # "pending" =>
        /\ exportsCopyClipboard.fn \in {"copyClipboard", "stub"}
        /\ exportsCopyClipboard.version # ""
        /\ exportsCopyClipboard.copyTextToClipboard
        /\ exportsCopyClipboard.copyImageToClipboard
        /\ exportsCopyClipboard.handlePaste

\* C6: handlePaste returns true or false for every paste event.
PasteReturnsBoolean ==
    paste.called => paste.returned \in {"true", "false"}

\* C7: a click on an element (with no data-copy-value of its own) bound with
\* an options.value that is a string or a number makes one writeText call,
\* with that value, and does not run the selectors.
ValueOptionCopied ==
    \A h \in ClickedHandlers :
        (/\ lastEvent.kind = "click"
         /\ h.options[k_value].t \in {"string", "number"}
         /\ n_copyValue \notin DOMAIN dataset[lastEvent.el])
        => /\ lastEvent.eff.writeText = <<h.options[k_value].v>>
           /\ ~lastEvent.eff.queried

\* The multiple options that are false in effect
FalseMultiples ==
    { Bool(FALSE), Num(<<"0">>), Str(<<"f","a","l","s","e">>),
      Str(<<"F","a","l","s","e">>), Str(<<"n","o">>) }

\* The first element in document order of a set of nodes, as a list
FirstOf(S) == IF S = {} THEN <<>> ELSE <<CHOOSE n \in S : \A m \in S : n <= m>>

\* The one target C8 names for a click on el with the merged options eo
FirstMatch(el, eo) ==
    LET tm == {n \in Nodes : eo[k_target] = Str(<<".", Document[n].className>>)}
        cm == {n \in Nodes : /\ eo[k_targetChildren] = Str(<<".", Document[n].className>>)
                             /\ Document[n].parent = el}
    IN  IF tm # {} THEN FirstOf(tm) ELSE FirstOf(cm)

\* C8: when the effective multiple option of the clicked element is false
\* and the click copies from targets, the handler goes through one target,
\* the first match of target in document order or else the first match of
\* targetChildren inside the element (none when nothing matches); what it
\* writes is that element's text alone, or nothing when it is copied as an
\* image.
CopyFirstOnly ==
    \A h \in ClickedHandlers :
        (/\ lastEvent.kind = "click"
         /\ h.elementOptions[k_multiple] \in FalseMultiples
         /\ lastEvent.eff.queried)
        => LET first == FirstMatch(lastEvent.el, h.elementOptions)
               asImage == /\ first # <<>>
                          /\ Document[first[1]].tagName = "img"
                          /\ h.elementOptions[k_images] = Bool(TRUE)
           IN  /\ lastEvent.eff.targetElements = first
               /\ lastEvent.eff.copyImage = IF asImage THEN first ELSE <<>>
               /\ lastEvent.eff.writeText =
                      IF first = <<>> \/ asImage THEN <<>>
                      ELSE <<targetText(first[1])>>

\* C8: the target selector matches two paragraphs, data-copy-multiple is
\* "false", and the click wrote the text of the first one
CopiedFirstOfTwo ==
    /\ lastEvent.kind = "click"
    /\ \E h \in ClickedHandlers :
           /\ h.elementOptions[k_multiple] = Str(<<"f","a","l","s","e">>)
           /\ h.elementOptions[k_target] = Str(<<".", "a">>)
    /\ lastEvent.eff.targetElements = <<6>>
    /\ lastEvent.eff.writeText = << <<"p">> >>

\* The dataset name C9 gives for a key: the camel-cased prefix plus key
DatasetName(prefix, key) ==
    IF prefix = <<>> THEN key
    ELSE IF key = <<"t","a","r","g","e","t">>
         THEN <<"c","o","p","y","T","a","r","g","e","t">>
    ELSE IF key = <<"t","a","r","g","e","t","C","h","i","l","d","r","e","n">>
         THEN <<"c","o","p","y","T","a","r","g","e","t","C","h","i","l","d","r","e","n">>
    ELSE <<"c","o","p","y","V","a","l","u","e">>

\* C9: the result of mergeOptions has exactly the keys of options; each key
\* holds the dataset entry named by the camel-cased prefix plus key when that
\* entry is present (even if empty), and otherwise options[key].
MergeOptionsResult ==
    merge.called =>
        /\ DOMAIN merge.result = DOMAIN merge.options
        /\ \A key \in DOMAIN merge.options :
               merge.result[key] =
                   IF DatasetName(merge.prefix, key) \in DOMAIN merge.target
                   THEN Str(merge.target[DatasetName(merge.prefix, key)])
                   ELSE merge.options[key]

\* C9: an empty data-copy-target-children replaced the targetChildren option,
\* and data-copy-copy-first, which names no option, was left out
MergedEmptyEntry ==
    /\ merge.called
    /\ merge.prefix = <<"c","o","p","y">>
    /\ n_copyTargetChildren \in DOMAIN merge.target
    /\ merge.target[n_copyTargetChildren] = <<>>
    /\ n_copyCopyFirst \in DOMAIN merge.target
    /\ k_targetChildren \in DOMAIN merge.options
    /\ merge.options[k_targetChildren] = Str(<<"o">>)
    /\ merge.result[k_targetChildren] = Str(<<>>)

====
